---- MODULE Spec2Model ----
(***************************************************************************)
(* Model of the controller of chrono-sage (src/src/control.c, control.h):  *)
(* eight gate rows, each with a clock division and an optional logic edge  *)
(* to another row, edited from a grid, ticked by a clock, saved to and     *)
(* loaded from preset slots.  Rows, presets and steps are indexed from 0   *)
(* as in the C code; logic.compared_row is 0 for "no edge" and target + 1  *)
(* otherwise.                                                              *)
(***************************************************************************)
EXTENDS Integers, Naturals, Sequences, FiniteSets, TLC

\* ------------------------------------------------------------------------
\* program constants

GATE_OUTS == 8
MAX_PRESETS == 10
MAX_STEPS == 128
GATETIMER == 3

\* enum logic_depth, input_config, page_type
SINGLE == "SINGLE"
NESTED == "NESTED"
CLOCK == "CLOCK"
ROTATE == "ROTATE"
MAIN == "MAIN"
CONFIG == "CONFIG"

default_divisions == <<128, 64, 32, 16, 8, 7, 6, 5, 4, 3, 2, 1>>

Rows == 0 .. (GATE_OUTS - 1)
Steps == 0 .. (MAX_STEPS - 1)

\* ------------------------------------------------------------------------
\* bounds of the model (inputs the environment may send)

\* grid rows 0..MaxRow receive presses in the editing specifications
MaxRow == 2
\* division presses use the NumDivCols right-most columns of the grid
NumDivCols == 1
\* preset slots 0..MaxSlot are saved to and loaded from
MaxSlot == 0
\* logic and division presses sent on the main page in one run
MaxEdits == 3
\* preset saves and rotation clocks sent in one run
MaxExtras == 1
\* the logic buttons 1..MaxGraphOp are pressed where only the edges matter
MaxGraphOp == 1
\* in the capacity runs a logic press targets one of the MaxDist rows that
\* follow the selected row (modulo GATE_OUTS)
MaxDist == 1
MaxTicks == 136
\* rotation clocks sent in a row
MaxRotations == 8
\* steps of the internal clock timer sent in the rotation runs
MaxTimerSteps == 1
\* steps of the clock sent in the alert runs
MaxAlertSteps == 10
\* steps of the clock sent in the gate runs
MaxGateSteps == 4
\* readings of the speed knob in one run
MaxKnobReads == 1

\* only the slots the environment uses are kept in the model of the store
PressRows == 0 .. (IF MaxRow < GATE_OUTS THEN MaxRow ELSE GATE_OUTS - 1)
LogicCols == 1 .. 3
DivCols == (IF NumDivCols < 12 THEN 16 - NumDivCols ELSE 4) .. 15
Slots == 0 .. (IF MaxSlot < MAX_PRESETS THEN MaxSlot ELSE MAX_PRESETS - 1)
GraphOps == 1 .. (IF MaxGraphOp < 3 THEN MaxGraphOp ELSE 3)

VARIABLES
    p,               \* preset_data_t p: [config, row]
    page,            \* enum page_type page
    selected_row,
    ec, do_error, do_blink_error, error_ref_row,
    current_tick,
    selected_preset,
    is_preset_saved,
    flash,           \* the presets stored by store_preset_to_flash
    gate,            \* output pins written by set_gate
    timers,          \* pending one-shot timed events (timer ids)
    speed,           \* u32 speed
    clock_interval,  \* interval of CLOCKTIMER set by add_timed_event and
                     \* update_timer_interval, in ms
    hung,            \* TRUE once a handler entered a loop it never leaves
    fired_log,       \* history: the rows fire_gate was called for, per tick
    used,            \* history: how many budgeted events were sent so far
    last             \* history: the last event sent and whether it was rejected

vars == <<p, page, selected_row, ec, do_error, do_blink_error, error_ref_row,
          current_tick, selected_preset, is_preset_saved, flash, gate, timers,
          speed, clock_interval, hung, fired_log, used, last>>

alertVars == <<ec, do_error, do_blink_error, error_ref_row>>
ioVars == <<gate, timers>>
tempoVars == <<speed, clock_interval>>

\* ------------------------------------------------------------------------
\* pure helpers

\* get_division: p.config.clock_divs[pos - 4]
get_division(cfg, pos) == cfg.clock_divs[pos - 4 + 1]

\* first loop of set_trigger_bits: the pattern of the divisor alone
baseTriggers(d) == [i \in Steps |-> IF (i + 1) % d = 0 THEN 1 ELSE 0]

\* the switch of set_trigger_bits on logic.type, for one step
combine(type, a, b) ==
    CASE type = 1 -> IF a # 0 /\ b # 0 THEN 1 ELSE 0
      [] type = 2 -> IF a # 0 \/ b # 0 THEN 1 ELSE 0
      [] type = 3 -> IF a # b THEN 1 ELSE 0
      [] OTHER -> a

\* set_trigger_bits(r, d) on the row array rows; the array is updated in
\* place, so a row compared with itself reads its own fresh base pattern
set_trigger_bits(rows, r, d) ==
    LET base == baseTriggers(d)
        type == rows[r].logic.type
        t == rows[r].logic.compared_row - 1
        other == IF t = r THEN base ELSE rows[t].triggers
    IN  [rows EXCEPT ![r].triggers =
            IF type > 0
            THEN [i \in Steps |-> combine(type, base[i], other[i])]
            ELSE base]

\* the two assignments "division = get_division(position); set_trigger_bits"
recompute(cfg, rows, r) ==
    LET d == get_division(cfg, rows[r].position)
    IN  set_trigger_bits([rows EXCEPT ![r].division = d], r, d)

get_total_logical_refs(rows) ==
    Cardinality({i \in Rows : rows[i].logic.compared_row > 0})

\* get_row_compared_from: index + 1 of the first row that targets r, else 0
get_row_compared_from(rows, r) ==
    LET from == {i \in Rows : rows[i].logic.compared_row - 1 = r}
    IN  IF from = {} THEN 0
        ELSE (CHOOSE i \in from : \A j \in from : i <= j) + 1

\* a check that never finds a referencing row
is_logically_referenced_never(rows, sel, r, include_selected) == 0

is_logically_referenced(rows, sel, r, include_selected) ==
    IF \E i \in Rows : /\ (include_selected # 0 \/ i # sel)
                       /\ rows[i].logic.compared_row - 1 = r
    THEN 1 ELSE 0

\* a check that never finds the reverse edge
is_circularly_referenced_never(rows, sel, r) == 0

is_circularly_referenced(rows, sel, r) ==
    IF rows[r].logic.compared_row > 0 /\ rows[r].logic.compared_row - 1 = sel
    THEN 1 ELSE 0

\* reset_all_logic: every row back to its default position, no edge
reset_all_logic(cfg, rows) ==
    [i \in Rows |->
        LET d == get_division(cfg, 15 - i)
        IN  [rows[i] EXCEPT !.logic = [type |-> 0, compared_row |-> 0],
                            !.position = 15 - i,
                            !.division = d,
                            !.triggers = baseTriggers(d)]]

\* ------------------------------------------------------------------------
\* process_nested_change

\* a first loop without the test "r_comp1 - 1 == r" of the checking mode
RECURSIVE upWalk_without_link_test(_, _, _, _, _)
upWalk_without_link_test(rows, r, just_checking, r_comp1, stack) ==
    IF r_comp1 = 0
    THEN [hang |-> FALSE, is_linked |-> 0, stack |-> stack]
    ELSE IF \E k \in 1 .. Len(stack) : stack[k] = r_comp1 - 1
    THEN [hang |-> TRUE, is_linked |-> 0, stack |-> stack]
    ELSE upWalk_without_link_test(rows, r, just_checking,
                                  rows[r_comp1 - 1].logic.compared_row,
                                  Append(stack, r_comp1 - 1))

\* first while loop: push r, then follow compared_row upwards.  The walk is
\* a function of the current row only, so pushing a row that is already on
\* the stack means the loop never ends (hang).
RECURSIVE upWalk(_, _, _, _, _)
upWalk(rows, r, just_checking, r_comp1, stack) ==
    IF r_comp1 = 0
    THEN [hang |-> FALSE, is_linked |-> 0, stack |-> stack]
    ELSE IF just_checking # 0 /\ r_comp1 - 1 = r
    THEN [hang |-> FALSE, is_linked |-> 1, stack |-> stack]
    ELSE IF \E k \in 1 .. Len(stack) : stack[k] = r_comp1 - 1
    THEN [hang |-> TRUE, is_linked |-> 0, stack |-> stack]
    ELSE upWalk(rows, r, just_checking,
                rows[r_comp1 - 1].logic.compared_row,
                Append(stack, r_comp1 - 1))

\* second while loop: pop the stack (last pushed first) and recompute
RECURSIVE popAll(_, _, _)
popAll(cfg, rows, stack) ==
    IF stack = <<>> THEN rows
    ELSE popAll(cfg, recompute(cfg, rows, stack[Len(stack)]),
                SubSeq(stack, 1, Len(stack) - 1))

\* third while loop: follow get_row_compared_from downwards
RECURSIVE downWalk(_, _, _, _, _, _)
downWalk(cfg, rows, r, just_checking, r_comp2, visited) ==
    IF r_comp2 = 0
    THEN [hang |-> FALSE, is_linked |-> 0, rows |-> rows]
    ELSE IF just_checking # 0 /\ r_comp2 - 1 = r
    THEN [hang |-> FALSE, is_linked |-> 1, rows |-> rows]
    ELSE IF (r_comp2 - 1) \in visited
    THEN [hang |-> TRUE, is_linked |-> 0, rows |-> rows]
    ELSE LET rows2 == IF just_checking # 0 THEN rows
                      ELSE recompute(cfg, rows, r_comp2 - 1)
         IN  downWalk(cfg, rows2, r, just_checking,
                      get_row_compared_from(rows2, r_comp2 - 1),
                      visited \cup {r_comp2 - 1})

\* process_nested_change(r, just_checking): [hang, ret, rows]
process_nested_change(cfg, rows, r, just_checking) ==
    LET up == upWalk(rows, r, just_checking, rows[r].logic.compared_row, <<r>>)
        rows1 == IF just_checking # 0 THEN rows ELSE popAll(cfg, rows, up.stack)
        down == downWalk(cfg, rows1, r, just_checking,
                         get_row_compared_from(rows1, r), {})
    IN  IF up.hang THEN [hang |-> TRUE, ret |-> 0, rows |-> rows]
        ELSE IF down.hang THEN [hang |-> TRUE, ret |-> 0, rows |-> rows]
        ELSE [hang |-> FALSE,
              ret |-> IF just_checking # 0
                      THEN (IF up.is_linked = 1 \/ down.is_linked = 1 THEN 1 ELSE 0)
                      ELSE 0,
              rows |-> down.rows]

\* ------------------------------------------------------------------------
\* process_grid_press, main page, logic buttons (0 < x < 4)

\* a toggle test that never recognises the set edge
was_toggled_off_never(rows, sel, x, y) == 0

\* u8 was_toggled_off = type == x && compared_row - 1 == y
was_toggled_off(rows, sel, x, y) ==
    IF rows[sel].logic.type = x /\ rows[sel].logic.compared_row - 1 = y
    THEN 1 ELSE 0

\* set_bits_for_logic_update(x, y, toggled_off)
set_bits_for_logic_update(cfg, rows, sel, x, y, toggled_off) ==
    LET rows1 == [rows EXCEPT
                    ![sel].logic = [type |-> IF toggled_off # 0 THEN 0 ELSE x,
                                    compared_row |-> IF toggled_off # 0 THEN 0 ELSE y + 1]]
    IN  recompute(cfg, rows1, sel)

\* the result of a logic press: the rows, whether it raised the alert (err)
\* and with which row (ref, row index + 1), and whether the handler hangs
logicResult(rows, err, ref, hang) ==
    [row |-> rows, err |-> err, ref |-> ref, hang |-> hang]

\* a self-reference test that never fires
is_self_reference_never(sel, y) == FALSE

\* the test "selected_row == y" of both depths
is_self_reference(sel, y) == sel = y

logic_single(cfg, rows, sel, x, y) ==
    IF is_circularly_referenced(rows, sel, y) = 1
    THEN logicResult(rows, 1, y + 1, FALSE)
    ELSE IF is_self_reference(sel, y)
    THEN logicResult(rows, 1, sel + 1, FALSE)
    ELSE logicResult(set_bits_for_logic_update(cfg, rows, sel, x, y,
                                               was_toggled_off(rows, sel, x, y)),
                     0, 0, FALSE)

\* the capacity term of the third NESTED condition
capacity_exceeded(rows, sel, x, y) ==
    /\ get_total_logical_refs(rows) > GATE_OUTS - 2
    /\ was_toggled_off(rows, sel, x, y) = 0
    /\ rows[sel].logic.compared_row - 1 # y

\* a rollback that forgets to restore the edge
rollback_edge_keep(tentative, rows, sel) == tentative

\* the else branch after the second check: restore logic.type and
\* logic.compared_row of the selected row
rollback_edge(tentative, rows, sel) ==
    [tentative EXCEPT ![sel].logic = rows[sel].logic]

\* the rows between the assignments of the last NESTED branch and its
\* second check: the edge of the selected row is set, its pattern is not
tentative_edge(cfg, rows, sel, x, y) ==
    LET wto == was_toggled_off(rows, sel, x, y)
    IN  [rows EXCEPT
            ![sel].logic = [type |-> IF wto # 0 THEN 0 ELSE x,
                            compared_row |-> IF wto # 0 THEN 0 ELSE y + 1],
            ![sel].division = get_division(cfg, rows[sel].position)]

logic_nested(cfg, rows, sel, x, y) ==
    IF is_logically_referenced(rows, sel, y, 0) = 1
    THEN logicResult(rows, 1, get_row_compared_from(rows, y), FALSE)
    ELSE IF is_circularly_referenced(rows, sel, y) = 1
    THEN logicResult(rows, 1, y + 1, FALSE)
    ELSE
    LET chk1 == process_nested_change(cfg, rows, y, 1)
        tentative == tentative_edge(cfg, rows, sel, x, y)
        chk2 == process_nested_change(cfg, tentative, sel, 1)
        commit == process_nested_change(cfg, tentative, sel, 0)
        rollback == rollback_edge(tentative, rows, sel)
    IN  IF chk1.hang THEN logicResult(rows, 0, 0, TRUE)
        ELSE IF \/ chk1.ret # 0
                   \/ is_self_reference(sel, y)
                   \/ capacity_exceeded(rows, sel, x, y)
        THEN logicResult(rows, 1, sel + 1, FALSE)
        ELSE IF chk2.hang THEN logicResult(rows, 0, 0, TRUE)
        ELSE IF chk2.ret = 0
        THEN logicResult(commit.rows, 0, 0, commit.hang)
        ELSE logicResult(rollback, 1, sel + 1, FALSE)

\* a dispatch that applies the SINGLE rules in both depths
logic_press_single_rules(cfg, rows, sel, x, y) == logic_single(cfg, rows, sel, x, y)

logic_press(cfg, rows, sel, x, y) ==
    IF cfg.logic_depth = SINGLE
    THEN logic_single(cfg, rows, sel, x, y)
    ELSE logic_nested(cfg, rows, sel, x, y)

\* process_grid_press, main page, division buttons (3 < x < 16)
division_press(cfg, rows, x, y) ==
    LET rows1 == recompute(cfg, [rows EXCEPT ![y].position = x], y)
        RECURSIVE refresh(_, _)
        refresh(rs, i) ==
            IF i = GATE_OUTS THEN rs
            ELSE refresh(IF rs[i].logic.compared_row - 1 = y
                         THEN set_trigger_bits(rs, i, rs[i].division)
                         ELSE rs, i + 1)
        nested == process_nested_change(cfg, rows1, y, 0)
    IN  IF cfg.logic_depth = SINGLE
        THEN logicResult(refresh(rows1, 0), 0, 0, FALSE)
        ELSE logicResult(nested.rows, 0, 0, nested.hang)

\* ------------------------------------------------------------------------
\* handlers

\* reject branches of process_grid_press: do_error = 1; error_ref_row = ref
raise_alert(ref) ==
    /\ do_error' = 1
    /\ error_ref_row' = ref
    /\ UNCHANGED <<ec, do_blink_error>>

\* process_grid_press on the main page with a logic or a division button
main_edit(x, y) ==
    IF x > 0 /\ x < 4
    THEN logic_press(p.config, p.row, selected_row, x, y)
    ELSE IF x > 3 /\ x < 16
    THEN division_press(p.config, p.row, x, y)
    ELSE logicResult(p.row, 0, 0, FALSE)

\* process_grid_press(x, y, on), page == MAIN
press_main(x, y, on) ==
    /\ page = MAIN
    /\ IF on = 0
       THEN UNCHANGED <<p, selected_row, alertVars, hung>>
       ELSE IF x = 0
       THEN /\ selected_row' = y
            /\ UNCHANGED <<p, alertVars, hung>>
       ELSE LET res == main_edit(x, y)
            IN  IF res.hang
                THEN /\ hung' = TRUE
                     /\ UNCHANGED <<p, selected_row, alertVars>>
                ELSE /\ p' = [p EXCEPT !.row = res.row]
                     /\ IF res.err = 1 THEN raise_alert(res.ref)
                                       ELSE UNCHANGED alertVars
                     /\ UNCHANGED <<selected_row, hung>>
    /\ UNCHANGED <<page, current_tick, selected_preset, is_preset_saved,
                   flash, ioVars>>
    /\ UNCHANGED tempoVars

\* whether process_grid_press(x, y, on) takes one of its reject branches
press_err(x, y, on) ==
    IF page = MAIN /\ on # 0 /\ x > 0 /\ x < 4
    THEN logic_press(p.config, p.row, selected_row, x, y).err
    ELSE 0

\* a load that takes the rows of the stored preset and keeps the config
load_preset_rows_only(preset) == [flash[preset] EXCEPT !.config = p.config]

\* load_preset(preset) applied to the preset in memory
load_preset(preset) == flash[preset]

\* the logic_depth glyphs of the config page
depth_press(q, x, y, on) ==
    IF x > 2 /\ x < 7 /\ y > 1 /\ y < 6 /\ q.config.logic_depth = NESTED
    THEN IF on = 0 THEN q
         ELSE LET cfg == [q.config EXCEPT !.logic_depth = SINGLE]
              IN  [config |-> cfg, row |-> reset_all_logic(cfg, q.row)]
    ELSE IF x > 8 /\ x < 13 /\ y > 1 /\ y < 6 /\ q.config.logic_depth = SINGLE
    THEN IF on = 0 THEN q
         ELSE LET cfg == [q.config EXCEPT !.logic_depth = NESTED]
              IN  [config |-> cfg, row |-> reset_all_logic(cfg, q.row)]
    ELSE q

\* the input_config buttons of the config page (skipped by the early
\* return of a released depth glyph, which has other coordinates anyway)
input_press(q, x, y, on) ==
    IF (x = 14 \/ x = 15) /\ y = 0 /\ on = 0
    THEN [q EXCEPT !.config.input_config = IF x = 14 THEN CLOCK ELSE ROTATE]
    ELSE q

\* process_grid_press(x, y, on), page == CONFIG
press_config(x, y, on) ==
    /\ page = CONFIG
    /\ LET loading == x > 2 /\ x < 13 /\ y = 0 /\ on = 0
           p1 == IF loading THEN load_preset(x - 3) ELSE p
       IN  /\ selected_preset' = IF loading THEN x - 3 ELSE selected_preset
           /\ p' = input_press(depth_press(p1, x, y, on), x, y, on)
    /\ UNCHANGED <<page, selected_row, alertVars, current_tick,
                   is_preset_saved, flash, ioVars, hung>>
    /\ UNCHANGED tempoVars

process_grid_press(x, y, on) ==
    /\ ~hung
    /\ \/ press_main(x, y, on)
       \/ press_config(x, y, on)

\* toggle_config_page
toggle_config_page(pg) == IF pg = CONFIG THEN MAIN ELSE CONFIG

\* process_grid_held(x, y): page toggle, then save_preset_with_confirmation
process_grid_held(x, y) ==
    /\ ~hung
    /\ LET page1 == IF x = 0 /\ y = 0 THEN toggle_config_page(page) ELSE page
           saving == page1 = CONFIG /\ x > 2 /\ x < 13 /\ y = 0
       IN  /\ page' = page1
           /\ selected_preset' = IF saving THEN x - 3 ELSE selected_preset
           /\ flash' = IF saving THEN [flash EXCEPT ![x - 3] = p] ELSE flash
           /\ is_preset_saved' = IF saving THEN 1 ELSE is_preset_saved
    /\ UNCHANGED <<p, selected_row, alertVars, current_tick, ioVars, hung>>
    /\ UNCHANGED tempoVars

\* a rotation that moves whole rows, logic edges included
rotate_clocks_with_edges(cfg, rows) ==
    [i \in Rows |-> rows[(i + 1) % GATE_OUTS]]

\* rotate_clocks: rows 0..6 take the position of the next row, in order,
\* each recomputed as soon as it is written; row 7 takes row 0's old one
rotate_clocks(cfg, rows) ==
    LET first_pos == rows[0].position
        first_div == get_division(cfg, first_pos)
        RECURSIVE loop(_, _)
        loop(rs, i) ==
            IF i = GATE_OUTS THEN rs
            ELSE IF (i + 1) % GATE_OUTS = 0
            THEN loop(set_trigger_bits(
                        [rs EXCEPT ![7].position = first_pos,
                                   ![7].division = first_div], 7, first_div),
                      i + 1)
            ELSE loop(recompute(cfg,
                        [rs EXCEPT ![i].position = rs[(i + 1) % GATE_OUTS].position],
                        i),
                      i + 1)
    IN  loop(rows, 0)

\* the rows fire_gate is called for by clock() at tick t
firing(rows, t) == {i \in Rows : rows[i].triggers[t] # 0}

\* an alert that clears one tick late
fire_error_alerts_late ==
    IF do_error # 0
    THEN IF ec + 1 = 6
         THEN /\ ec' = 0
              /\ do_error' = 0
              /\ do_blink_error' = 0
              /\ error_ref_row' = 0
         ELSE /\ ec' = ec + 1
              /\ do_blink_error' = IF (ec + 1) % 2 = 0 THEN 0 ELSE 1
              /\ UNCHANGED <<do_error, error_ref_row>>
    ELSE UNCHANGED alertVars

\* fire_error_alerts
fire_error_alerts ==
    IF do_error # 0
    THEN IF ec + 1 = 5
         THEN /\ ec' = 0
              /\ do_error' = 0
              /\ do_blink_error' = 0
              /\ error_ref_row' = 0
         ELSE /\ ec' = ec + 1
              /\ do_blink_error' = IF (ec + 1) % 2 = 0 THEN 0 ELSE 1
              /\ UNCHANGED <<do_error, error_ref_row>>
    ELSE UNCHANGED alertVars

\* step(): output_clock, clock (with fire_gate), fire_error_alerts
step ==
    LET t == (current_tick + 1) % MAX_STEPS
        f == firing(p.row, t)
    IN  /\ current_tick' = t
        /\ p' = [p EXCEPT !.row = [i \in Rows |->
                    IF i \in f THEN [p.row[i] EXCEPT !.blink = 1] ELSE p.row[i]]]
        /\ gate' = [i \in Rows |-> IF i \in f THEN 1 ELSE gate[i]]
        /\ timers' = timers \cup {2} \cup {GATETIMER + i : i \in f}
        /\ fire_error_alerts
        /\ UNCHANGED <<page, selected_row, selected_preset, is_preset_saved,
                       flash, hung>>
        /\ UNCHANGED tempoVars

\* process_event(MAIN_CLOCK_RECEIVED) with data[1] set and input_config
\* CLOCK, or process_event(TIMED_EVENT, CLOCKTIMER) when no external clock
\* is connected or input_config is ROTATE: step()
clock_step ==
    /\ ~hung
    /\ step

\* process_event(MAIN_CLOCK_RECEIVED) with data[1] set, input_config ROTATE
clock_rotate ==
    /\ ~hung
    /\ p.config.input_config = ROTATE
    /\ p' = [p EXCEPT !.row = rotate_clocks(p.config, p.row)]
    /\ UNCHANGED <<page, selected_row, alertVars, current_tick,
                   selected_preset, is_preset_saved, flash, ioVars, hung>>
    /\ UNCHANGED tempoVars

\* a timer event that leaves the gate as it is
timed_event_keeps_gate(id) ==
    /\ ~hung
    /\ id \in timers
    /\ timers' = timers \ {id}
    /\ UNCHANGED <<p, page, selected_row, alertVars, current_tick,
                   selected_preset, is_preset_saved, flash, hung, gate>>
    /\ UNCHANGED tempoVars

\* process_event(TIMED_EVENT, id) for the one-shot timers: CLOCKOUTTIMER
\* lowers the clock output, GATETIMER + r lowers gate r
timed_event(id) ==
    /\ ~hung
    /\ id \in timers
    /\ timers' = timers \ {id}
    /\ gate' = IF id >= GATETIMER THEN [gate EXCEPT ![id - GATETIMER] = 0] ELSE gate
    /\ UNCHANGED <<p, page, selected_row, alertVars, current_tick,
                   selected_preset, is_preset_saved, flash, hung>>
    /\ UNCHANGED tempoVars

\* render_grid on the main page clears every row's blink
render_grid ==
    /\ ~hung
    /\ page = MAIN
    /\ p' = [p EXCEPT !.row = [i \in Rows |-> [p.row[i] EXCEPT !.blink = 0]]]
    /\ UNCHANGED <<page, selected_row, alertVars, current_tick,
                   selected_preset, is_preset_saved, flash, ioVars, hung>>
    /\ UNCHANGED tempoVars

\* tempo: update_speed_from_knob and update_speed

\* init_control: speed_mod = gate_length_mod = 0, never assigned again
speed_mod == 0

\* a clamp with the lower limit 1 in place of 30
clamp_speed_low_one(sp) == IF sp > 1000 THEN 1000 ELSE IF sp < 1 THEN 1 ELSE sp

\* if (sp > 1000) sp = 1000; else if (sp < 30) sp = 30;
clamp_speed(sp) == IF sp > 1000 THEN 1000 ELSE IF sp < 30 THEN 30 ELSE sp

\* update_speed: the interval passed to update_timer_interval(CLOCKTIMER, .)
update_speed(spd) == 60000 \div clamp_speed(spd + speed_mod)

\* process_event(TIMED_EVENT, SPEEDTIMER): update_speed_from_knob, with
\* count the value of get_knob_count() and k that of get_knob_value(0)
update_speed_from_knob(count, k) ==
    /\ ~hung
    /\ IF count = 0
       THEN UNCHANGED tempoVars
       ELSE /\ speed' = k \div 64
            /\ clock_interval' = update_speed(k \div 64)
    /\ UNCHANGED <<p, page, selected_row, alertVars, current_tick,
                   selected_preset, is_preset_saved, flash, ioVars, hung>>

\* ------------------------------------------------------------------------
\* initial state: init_presets followed by init_control

event(ev, x, y, on, err) == [ev |-> ev, x |-> x, y |-> y, on |-> on, err |-> err]

defaultConfig ==
    [logic_depth |-> SINGLE, input_config |-> CLOCK,
     clock_divs |-> default_divisions]

defaultRow(i) ==
    [position |-> 15 - i,
     division |-> get_division(defaultConfig, 15 - i),
     triggers |-> baseTriggers(get_division(defaultConfig, 15 - i)),
     blink |-> 0,
     logic |-> [type |-> 0, compared_row |-> 0]]

defaultPreset == [config |-> defaultConfig, row |-> [i \in Rows |-> defaultRow(i)]]

Init ==
    /\ p = defaultPreset
    /\ flash = [s \in Slots |-> defaultPreset]
    /\ page = MAIN
    /\ selected_row = 0
    /\ ec = 0 /\ do_error = 0 /\ do_blink_error = 0 /\ error_ref_row = 0
    /\ current_tick = MAX_STEPS - 1
    /\ selected_preset = 0
    /\ is_preset_saved = 0
    /\ gate = [r \in Rows |-> 0]
    /\ timers = {}
    /\ speed = 0
    /\ clock_interval = 100
    /\ hung = FALSE
    /\ fired_log = <<>>
    /\ used = [edits |-> 0, extras |-> 0]
    /\ last = event("init", 0, 0, 0, 0)

\* ------------------------------------------------------------------------
\* the environment: the events it sends to process_event.  It presses the
\* row, logic and division buttons while the main page is shown and the
\* glyphs of the config page while the config page is shown.

spend(kind) == used' = [used EXCEPT ![kind] = @ + 1]

grid_key_pressed(x, y, on) ==
    /\ process_grid_press(x, y, on)
    /\ last' = event("press", x, y, on, press_err(x, y, on))

grid_key_held(x, y) ==
    /\ process_grid_held(x, y)
    /\ last' = event("held", x, y, 0, 0)

SelectRow ==
    /\ page = MAIN
    /\ \E y \in PressRows : grid_key_pressed(0, y, 1)
    /\ UNCHANGED <<fired_log, used>>

LogicButton ==
    /\ page = MAIN
    /\ \E x \in LogicCols, y \in PressRows : grid_key_pressed(x, y, 1)
    /\ UNCHANGED <<fired_log, used>>

DivisionButton ==
    /\ page = MAIN
    /\ \E x \in DivCols, y \in PressRows : grid_key_pressed(x, y, 1)
    /\ UNCHANGED <<fired_log, used>>

DepthGlyph ==
    /\ page = CONFIG
    /\ \E x \in {3, 9} : grid_key_pressed(x, 2, 1)
    /\ UNCHANGED <<fired_log, used>>

TogglePage ==
    /\ grid_key_held(0, 0)
    /\ UNCHANGED <<fired_log, used>>

\* logic and division presses within the budget MaxEdits
BudgetedEdit ==
    /\ page = MAIN
    /\ used.edits < MaxEdits
    /\ \E x \in LogicCols \cup DivCols, y \in PressRows : grid_key_pressed(x, y, 1)
    /\ spend("edits")
    /\ UNCHANGED fired_log

\* grid editing in both depths, MaxEdits edits per run
Next ==
    \/ SelectRow
    \/ BudgetedEdit
    \/ DepthGlyph
    \/ TogglePage

Spec == Init /\ [][Next]_vars

InputButton ==
    /\ page = CONFIG
    /\ \E x \in {14, 15} : grid_key_pressed(x, 0, 0)
    /\ UNCHANGED <<fired_log, used>>

LoadPreset ==
    /\ page = CONFIG
    /\ \E s \in Slots : grid_key_pressed(s + 3, 0, 0)
    /\ UNCHANGED <<fired_log, used>>

SavePreset ==
    /\ page = CONFIG
    /\ used.extras < MaxExtras
    /\ \E s \in Slots : grid_key_held(s + 3, 0)
    /\ spend("extras")
    /\ UNCHANGED fired_log

Rotate ==
    /\ used.extras < MaxExtras
    /\ clock_rotate
    /\ last' = event("rotate", 0, 0, 0, 0)
    /\ spend("extras")
    /\ UNCHANGED fired_log

\* logic presses within the budget MaxEdits, buttons GraphOps only
BudgetedLogic ==
    /\ page = MAIN
    /\ used.edits < MaxEdits
    /\ \E x \in GraphOps, y \in PressRows : grid_key_pressed(x, y, 1)
    /\ spend("edits")
    /\ UNCHANGED fired_log

\* the edge graph under every kind of event that reads or writes it:
\* edits, depth switches, preset saves and loads, rotation clocks
NextGraph ==
    \/ SelectRow
    \/ BudgetedLogic
    \/ DepthGlyph
    \/ TogglePage
    \/ InputButton
    \/ LoadPreset
    \/ SavePreset
    \/ Rotate

SpecGraph == Init /\ [][NextGraph]_vars

\* the state after switching to NESTED on the config page and back to MAIN
InitNested ==
    /\ p = [defaultPreset EXCEPT !.config.logic_depth = NESTED]
    /\ flash = [s \in Slots |-> defaultPreset]
    /\ page = MAIN
    /\ selected_row = 0
    /\ ec = 0 /\ do_error = 0 /\ do_blink_error = 0 /\ error_ref_row = 0
    /\ current_tick = MAX_STEPS - 1
    /\ selected_preset = 0
    /\ is_preset_saved = 0
    /\ gate = [r \in Rows |-> 0]
    /\ timers = {}
    /\ speed = 0
    /\ clock_interval = 100
    /\ hung = FALSE
    /\ fired_log = <<>>
    /\ used = [edits |-> 0, extras |-> 0]
    /\ last = event("held", 0, 0, 0, 0)

\* grid editing in NESTED depth, any number of edits
NextNested ==
    \/ SelectRow
    \/ LogicButton
    \/ DivisionButton

SpecNested == InitNested /\ [][NextNested]_vars

\* all eight rows, each linked to a row that follows it
ChainSelect ==
    /\ page = MAIN
    /\ \E y \in Rows : grid_key_pressed(0, y, 1)
    /\ UNCHANGED <<fired_log, used>>

ChainLogic ==
    /\ page = MAIN
    /\ \E x \in GraphOps, d \in 1 .. MaxDist :
            grid_key_pressed(x, (selected_row + d) % GATE_OUTS, 1)
    /\ UNCHANGED <<fired_log, used>>

NextCapacity ==
    \/ ChainSelect
    \/ ChainLogic

SpecCapacity == InitNested /\ [][NextCapacity]_vars

\* the division buttons of process_grid_press: x > 3 && x < 16
AllDivCols == 4 .. 15

\* a division press on the selected row, before the clock starts
SetDivision ==
    /\ page = MAIN
    /\ fired_log = <<>>
    /\ used.extras < MaxExtras
    /\ \E x \in AllDivCols : grid_key_pressed(x, selected_row, 1)
    /\ spend("extras")
    /\ UNCHANGED fired_log

\* process_event(MAIN_CLOCK_RECEIVED) with data[1] set and input_config
\* CLOCK; the history records the rows fire_gate was called for
ClockReceived ==
    /\ p.config.input_config = CLOCK
    /\ Len(fired_log) < MaxTicks
    /\ clock_step
    /\ fired_log' = Append(fired_log,
                           firing(p.row, (current_tick + 1) % MAX_STEPS))
    /\ last' = event("clock", 0, 0, 0, 0)
    /\ UNCHANGED used

\* a run of clock ticks in CLOCK input mode, after at most MaxExtras
\* division presses
NextClock ==
    \/ SetDivision
    \/ ClockReceived

SpecClock == Init /\ [][NextClock]_vars

\* a row is selected before any logic press and before the clock starts
SelectBeforeClock ==
    /\ page = MAIN
    /\ fired_log = <<>>
    /\ used.extras = 0
    /\ \E y \in Rows : grid_key_pressed(0, y, 1)
    /\ UNCHANGED <<fired_log, used>>

\* a logic press on the selected row, before the clock starts
LinkBeforeClock ==
    /\ page = MAIN
    /\ fired_log = <<>>
    /\ used.extras < MaxExtras
    /\ \E x \in GraphOps, y \in Rows : grid_key_pressed(x, y, 1)
    /\ spend("extras")
    /\ UNCHANGED fired_log

\* a run of clock ticks after at most MaxExtras logic presses
NextPattern ==
    \/ SelectBeforeClock
    \/ LinkBeforeClock
    \/ ClockReceived

SpecPattern == Init /\ [][NextPattern]_vars

\* process_event(MAIN_CLOCK_RECEIVED) with input_config ROTATE, at most
\* MaxRotations times in a row; the history records how many rotations
\* came in a row and the rows before the first of them
RotateClock ==
    /\ clock_rotate
    /\ IF last.ev = "rotations"
       THEN /\ last.x < MaxRotations
            /\ last' = [last EXCEPT !.x = @ + 1]
       ELSE last' = [ev |-> "rotations", x |-> 1, y |-> 0, on |-> 0, err |-> 0,
                     before |-> p.row]
    /\ UNCHANGED <<fired_log, used>>

\* process_event(TIMED_EVENT, CLOCKTIMER) while no external clock is
\* connected or input_config is ROTATE: step(), at most MaxTimerSteps times
TimerStep ==
    /\ Len(fired_log) < MaxTimerSteps
    /\ clock_step
    /\ fired_log' = Append(fired_log,
                           firing(p.row, (current_tick + 1) % MAX_STEPS))
    /\ last' = event("timer", 0, 0, 0, 0)
    /\ UNCHANGED used

\* edits, config presses and timer steps, all before the first rotation
\* clock
EditBeforeRotation ==
    /\ last.ev # "rotations"
    /\ \/ SelectRow
       \/ BudgetedLogic
       \/ TogglePage
       \/ InputButton
       \/ TimerStep

\* a run of rotation clocks after at most MaxEdits logic presses
NextRotate ==
    \/ EditBeforeRotation
    \/ RotateClock

SpecRotate == Init /\ [][NextRotate]_vars

\* a logic press that process_grid_press rejects
RejectedPress ==
    /\ page = MAIN
    /\ \E x \in GraphOps, y \in PressRows :
            /\ press_err(x, y, 1) = 1
            /\ grid_key_pressed(x, y, 1)
    /\ UNCHANGED <<fired_log, used>>

\* the last event was a rejected logic press
rejected == last.ev = "press" /\ last.err = 1

\* step(), at most MaxAlertSteps times; the history records, for the steps
\* that follow a rejected press with no other press in between (on = 1),
\* how many they are (x) and the value of ec right after that press (y)
AlertStep ==
    /\ Len(fired_log) < MaxAlertSteps
    /\ clock_step
    /\ fired_log' = Append(fired_log,
                           firing(p.row, (current_tick + 1) % MAX_STEPS))
    /\ last' = IF rejected
               THEN [ev |-> "step", x |-> 1, y |-> ec, on |-> 1, err |-> 0]
               ELSE IF last.ev = "step" /\ last.on = 1
               THEN [last EXCEPT !.x = @ + 1]
               ELSE [ev |-> "step", x |-> 0, y |-> 0, on |-> 0, err |-> 0]
    /\ UNCHANGED used

\* rejected presses and steps of the clock
NextAlert ==
    \/ SelectRow
    \/ RejectedPress
    \/ AlertStep

SpecAlert == Init /\ [][NextAlert]_vars

\* coordinates outside the grid: a row index past the last row, a column
\* past the last column
BadRows == {GATE_OUTS}
BadCols == {16}

\* a press or release with a row button and a row outside 0..7, or with a
\* column outside 0..15.  (With a logic or division button and a row
\* outside 0..7 the handler indexes p.row past its end; those presses are
\* not sent here.)
MalformedPress ==
    /\ \E x \in {0} \cup BadCols, y \in PressRows \cup BadRows, on \in {0, 1} :
            /\ x \in BadCols \/ y \in BadRows
            /\ grid_key_pressed(x, y, on)
    /\ UNCHANGED <<fired_log, used>>

\* a hold with a row outside 0..7 or a column outside 0..15
MalformedHeld ==
    /\ \E x \in {0, 3} \cup BadCols, y \in {0} \cup BadRows :
            /\ x \in BadCols \/ y \in BadRows
            /\ grid_key_held(x, y)
    /\ UNCHANGED <<fired_log, used>>

\* well-formed row and division presses and page toggles, with malformed
\* presses and holds in between
NextBoundary ==
    \/ SelectRow
    \/ DivisionButton
    \/ TogglePage
    \/ MalformedPress
    \/ MalformedHeld

SpecBoundary == Init /\ [][NextBoundary]_vars

\* step(), at most MaxGateSteps times; the history records the rows fired
GateStep ==
    /\ Len(fired_log) < MaxGateSteps
    /\ clock_step
    /\ fired_log' = Append(fired_log,
                           firing(p.row, (current_tick + 1) % MAX_STEPS))
    /\ last' = event("fire", 0, 0, 0, 0)
    /\ UNCHANGED used

\* process_event(TIMED_EVENT, id): a pending one-shot timer is delivered
TimerExpires ==
    /\ \E id \in timers :
            /\ timed_event(id)
            /\ last' = event("timer_event", id, 0, 0, 0)
    /\ UNCHANGED <<fired_log, used>>

\* render_grid is called
Render ==
    /\ render_grid
    /\ last' = event("render", 0, 0, 0, 0)
    /\ UNCHANGED <<fired_log, used>>

\* clock steps with timer deliveries and renderings in any order
NextGate ==
    \/ GateStep
    \/ TimerExpires
    \/ Render

SpecGate == Init /\ [][NextGate]_vars

\* the values get_knob_value returns (u16) and get_knob_count returns
KnobValues == 0 .. 65535
KnobCounts == {0, 1}

\* the speed timer fires, at most MaxKnobReads times, with any knob value
SpeedTimer ==
    /\ used.extras < MaxKnobReads
    /\ \E count \in KnobCounts, k \in KnobValues :
            /\ update_speed_from_knob(count, k)
            /\ last' = event("knob", k, count, 0, 0)
    /\ spend("extras")
    /\ UNCHANGED fired_log

NextTempo == SpeedTimer

SpecTempo == Init /\ [][NextTempo]_vars

\* ------------------------------------------------------------------------
\* the logic graph

\* the row r's edge points to, -1 without an edge
target(rows, r) == rows[r].logic.compared_row - 1

has_edge(rows, r) == rows[r].logic.compared_row > 0

\* the row reached from r by following k edges, -1 when the chain ends
RECURSIVE hops(_, _, _)
hops(rows, r, k) ==
    IF k = 0 \/ r = -1 THEN r ELSE hops(rows, target(rows, r), k - 1)

on_cycle(rows, r) == \E k \in 1 .. GATE_OUTS : hops(rows, r, k) = r

\* the last event was a press of a logic button on the main page
logic_pressed ==
    last.ev = "press" /\ last.on = 1 /\ last.x \in LogicCols /\ page = MAIN

\* C1: in NESTED depth the directed graph of logic edges is acyclic in
\* every reachable state, whatever edits, depth switches, rotations and
\* preset saves and loads came before.
C1_NestedAcyclic ==
    p.config.logic_depth = NESTED => \A r \in Rows : ~on_cycle(p.row, r)

\* C1 witness: with edges a -> b and b -> c set, the press c -> a has been
\* rejected and the graph still holds the chain.
C1_Witness ==
    /\ p.config.logic_depth = NESTED
    /\ logic_pressed /\ last.err = 1
    /\ \E a, b, c \in Rows :
        /\ a # b /\ b # c /\ a # c
        /\ last.y = a /\ selected_row = c
        /\ target(p.row, a) = b /\ target(p.row, b) = c
        /\ ~has_edge(p.row, c)

\* C2 as stated: in NESTED depth at most GATE_OUTS - 2 = 6 rows have a
\* logic edge.
C2_AtMostSix ==
    p.config.logic_depth = NESTED => get_total_logical_refs(p.row) <= GATE_OUTS - 2

\* C2 amended: in NESTED depth at most GATE_OUTS - 1 = 7 rows have a logic
\* edge, so at least one row has none.
C2_AtMostSeven ==
    p.config.logic_depth = NESTED => get_total_logical_refs(p.row) <= GATE_OUTS - 1

\* C2 witness: seven rows have an edge and the press that would give the
\* eighth row one has been rejected.
C2_Witness ==
    /\ p.config.logic_depth = NESTED
    /\ get_total_logical_refs(p.row) = GATE_OUTS - 1
    /\ logic_pressed /\ last.err = 1
    /\ ~has_edge(p.row, selected_row)
    /\ last.y # selected_row

\* C3: in NESTED depth every row is the target of at most one row's edge.
C3_OneReferrer ==
    p.config.logic_depth = NESTED =>
        \A t \in Rows : Cardinality({r \in Rows : target(p.row, r) = t}) <= 1

\* C3 witness: a press on a row that another row already targets has been
\* rejected, with that other row recorded for the alert.
C3_Witness ==
    /\ p.config.logic_depth = NESTED
    /\ logic_pressed /\ last.err = 1
    /\ \E r \in Rows : /\ r # selected_row
                       /\ target(p.row, r) = last.y
                       /\ error_ref_row = r + 1

\* C4: in both depths no row's edge targets the row itself, and a logic
\* press on the selected row itself is rejected.
C4_NoSelfReference ==
    /\ \A r \in Rows : target(p.row, r) # r
    /\ (logic_pressed /\ last.y = selected_row) => last.err = 1

\* C4 witness: in NESTED depth a logic press on the selected row itself has
\* been rejected.
C4_Witness ==
    /\ p.config.logic_depth = NESTED
    /\ logic_pressed /\ last.y = selected_row /\ last.err = 1
    /\ do_error = 1 /\ error_ref_row = selected_row + 1

\* C5: in SINGLE depth no two rows target each other, and a press for the
\* reverse of an existing edge is rejected.
C5_NoMutualPair ==
    p.config.logic_depth = SINGLE =>
        /\ \A a, b \in Rows :
              ~(a # b /\ target(p.row, a) = b /\ target(p.row, b) = a)
        /\ (logic_pressed /\ target(p.row, last.y) = selected_row) => last.err = 1

\* C5 witness: with a -> b set, the press b -> a has been rejected.
C5_Witness ==
    /\ p.config.logic_depth = SINGLE
    /\ logic_pressed /\ last.err = 1
    /\ last.y # selected_row
    /\ target(p.row, last.y) = selected_row
    /\ ~has_edge(p.row, selected_row)
    /\ error_ref_row = last.y + 1

\* C6: a logic press that is rejected, in either depth, leaves every row
\* (position, division, logic edge, fire pattern) as it was before the press
\* and leaves the alert pending with the offending row recorded.
C6_RejectChangesNothing ==
    [][(logic_pressed' /\ last'.err = 1) =>
          /\ p'.row = p.row
          /\ do_error' = 1
          /\ error_ref_row' \in 1 .. GATE_OUTS]_vars

\* C6 witness: in NESTED depth, with a -> b and b -> c set and the alert
\* idle before, the press c -> a that would close the cycle has been
\* rejected: the tentative edge is gone and the alert names row c.
C6_Witness ==
    /\ p.config.logic_depth = NESTED
    /\ logic_pressed /\ last.err = 1
    /\ do_error = 1 /\ error_ref_row = selected_row + 1
    /\ ~has_edge(p.row, selected_row)
    /\ last.y # selected_row
    /\ hops(p.row, last.y, 2) = selected_row

\* C7: toggle rule, both depths: a logic press whose operator and target
\* equal the edge the selected row already has is accepted, clears that
\* edge, and leaves the row with the fire pattern of its divisor alone.
C7_ToggleClearsEdge ==
    [][(/\ logic_pressed'
        /\ p.row[selected_row].logic =
               [type |-> last'.x, compared_row |-> last'.y + 1]) =>
          /\ last'.err = 0
          /\ hung' = hung
          /\ p'.row[selected_row].logic = [type |-> 0, compared_row |-> 0]
          /\ p'.row[selected_row].triggers =
                 baseTriggers(p'.row[selected_row].division)]_vars

\* C7 witness: an accepted logic press has left the selected row without an
\* edge (only the toggle does that), while another row still targets it.
C7_Witness ==
    /\ logic_pressed /\ last.err = 0
    /\ ~has_edge(p.row, selected_row)
    /\ p.row[selected_row].triggers = baseTriggers(p.row[selected_row].division)
    /\ \E r \in Rows : target(p.row, r) = selected_row

\* the last event was a press of a division button on the main page
division_pressed ==
    last.ev = "press" /\ last.on = 1 /\ last.x \in DivCols /\ page = MAIN

\* the stored pattern of row r is the pattern of its divisor combined by its
\* operator with the stored pattern of its target (the divisor alone
\* without an edge)
fresh(rows, r) ==
    \A i \in Steps :
        rows[r].triggers[i] =
            IF has_edge(rows, r)
            THEN combine(rows[r].logic.type, baseTriggers(rows[r].division)[i],
                         rows[target(rows, r)].triggers[i])
            ELSE baseTriggers(rows[r].division)[i]

\* C8: after every accepted logic or division edit, in either depth, the
\* fire pattern of every row is fresh, so a tick observes the settled
\* result of the edit.
C8_FreshAfterEdit ==
    ((logic_pressed \/ division_pressed) /\ last.err = 0 /\ ~hung)
        => \A r \in Rows : fresh(p.row, r)

\* the same freshness, for edits made in NESTED depth only
FreshAfterNestedEdit ==
    (p.config.logic_depth = NESTED /\ (logic_pressed \/ division_pressed)
        /\ last.err = 0 /\ ~hung)
        => \A r \in Rows : fresh(p.row, r)

\* the number of ticks of the window k .. k + d - 1 of the history at
\* which row r fired
fires_in_window(r, k, d) ==
    Cardinality({j \in k .. k + d - 1 : r \in fired_log[j]})

\* row r fired exactly once in every window of d consecutive ticks
periodic(r, d) ==
    \A k \in 1 .. Len(fired_log) - d + 1 : fires_in_window(r, k, d) = 1

\* C9: in a run of clock ticks in CLOCK input mode, a row with divisor d of
\* the divisor table and no logic edge fires exactly once in every window
\* of d consecutive ticks.
C9_PeriodicFiring ==
    p.config.input_config = CLOCK =>
        \A r \in Rows : ~has_edge(p.row, r) => periodic(r, p.row[r].division)

\* the same periodicity for the divisors that divide MAX_STEPS only
PeriodicWhenDividesSteps ==
    \A r \in Rows :
        (~has_edge(p.row, r) /\ MAX_STEPS % p.row[r].division = 0)
            => periodic(r, p.row[r].division)

\* enum logical_type { NONE, AND, OR, NOR }: the name of each logic.type
logical_type(t) ==
    CASE t = 1 -> "AND"
      [] t = 2 -> "OR"
      [] t = 3 -> "NOR"
      [] OTHER -> "NONE"

\* the operators as the comments of set_trigger_bits name them
coded_type(t) == IF t = 3 THEN "XOR" ELSE logical_type(t)

\* the truth table of the operators
truth_table(op, a, b) ==
    CASE op = "AND" -> a /\ b
      [] op = "OR" -> a \/ b
      [] op = "XOR" -> a # b
      [] op = "NOR" -> ~a /\ ~b
      [] OTHER -> a

\* row A, whose edge targets a row without an edge, fires at every step
\* iff the operator called name(type) gives true for the two base patterns
follows_table(rows, A, name(_)) ==
    LET B == target(rows, A)
    IN  \A i \in Steps :
            (rows[A].triggers[i] = 1) <=>
                truth_table(name(rows[A].logic.type),
                            baseTriggers(rows[A].division)[i] = 1,
                            baseTriggers(rows[B].division)[i] = 1)

\* C10: a row A whose edge has an operator of logical_type and targets a
\* row B without an edge fires at a step iff the operator, by the table
\* AND = a and b, OR = a or b, XOR = a differs from b, NOR = neither a nor
\* b, applied to the base patterns of A's and B's divisors is true.
C10_OperatorTable ==
    \A A \in Rows :
        (has_edge(p.row, A) /\ ~has_edge(p.row, target(p.row, A)))
            => follows_table(p.row, A, logical_type)

\* the same table with logic.type 3 read as XOR
OperatorTableAsCoded ==
    \A A \in Rows :
        (has_edge(p.row, A) /\ ~has_edge(p.row, target(p.row, A)))
            => follows_table(p.row, A, coded_type)

\* row A has divisor dA and an AND edge to row B, which has divisor dB and
\* no edge
and_linked(A, dA, B, dB) ==
    /\ p.row[A].logic.type = 1 /\ target(p.row, A) = B
    /\ p.row[A].division = dA
    /\ p.row[B].division = dB /\ ~has_edge(p.row, B)

\* row r fired at tick j of the history iff it fired at tick j + n, for
\* the ticks 1 .. upto of the history
repeats(r, n, upto) ==
    \A j \in 1 .. upto :
        (j + n <= Len(fired_log)) =>
            ((r \in fired_log[j]) <=> (r \in fired_log[j + n]))

\* C11: a row A with divisor 4 AND-linked to a row B with divisor 3 and no
\* edge has pattern length 12: over any run of consecutive ticks the fire
\* sequence of A repeats every 12 ticks.
C11_PatternLengthProduct ==
    \A A, B \in Rows :
        and_linked(A, 4, B, 3) => repeats(A, 12, Len(fired_log))

\* the same repetition within the first MAX_STEPS ticks, before
\* current_tick wraps
PatternRepeatsBeforeWrap ==
    \A A, B \in Rows :
        and_linked(A, 4, B, 3) => repeats(A, 12, MAX_STEPS - 12)

\* one rotation gives row i the position and division of row i + 1, and
\* row 7 those of row 0
shifted_by_one(before, after) ==
    \A i \in Rows :
        /\ after[i].position = before[(i + 1) % GATE_OUTS].position
        /\ after[i].division = before[(i + 1) % GATE_OUTS].division

\* the rows have the same position and division in both arrays
same_divisions(a, b) ==
    \A i \in Rows : a[i].position = b[i].position /\ a[i].division = b[i].division

\* the rows have the same fire pattern in both arrays
same_patterns(a, b) == \A i \in Rows : a[i].triggers = b[i].triggers

\* C12: rotation is a cyclic shift of period 8: one rotation step shifts
\* position and divisor by one row, and 8 rotation steps with no other
\* event in between return position, divisor and pattern of every row to
\* their values before the rotations.
C12_RotationPeriod8 ==
    last.ev = "rotations" =>
        /\ last.x = 1 => shifted_by_one(last.before, p.row)
        /\ last.x = GATE_OUTS =>
              /\ same_divisions(p.row, last.before)
              /\ same_patterns(p.row, last.before)

\* the part of C12 about position and division alone
RotationShiftsDivisions ==
    last.ev = "rotations" =>
        /\ last.x = 1 => shifted_by_one(last.before, p.row)
        /\ last.x = GATE_OUTS => same_divisions(p.row, last.before)

\* the whole of C12 for the runs in which no row has a logic edge
RotationPeriod8WithoutEdges ==
    (last.ev = "rotations" /\ last.x = GATE_OUTS
        /\ \A r \in Rows : ~has_edge(p.row, r))
        => same_patterns(p.row, last.before)

\* C13: a rotation step changes no row's logic edge (operator and target
\* stay with the row index), leaves the config alone and neither advances
\* nor resets the tick phase.
C13_RotationKeepsEdgesAndPhase ==
    [][last'.ev = "rotations" =>
          /\ \A r \in Rows : p'.row[r].logic = p.row[r].logic
          /\ p'.config = p.config
          /\ current_tick' = current_tick]_vars

\* C13 witness: a rotation clock has been handled in a run in which a row
\* has a logic edge and the tick phase has advanced from its initial value.
C13_Witness ==
    /\ last.ev = "rotations"
    /\ \E r \in Rows : has_edge(p.row, r) /\ has_edge(last.before, r)
    /\ current_tick # MAX_STEPS - 1

\* the alert is idle: not pending, counter 0, no highlighted row
alert_idle ==
    do_error = 0 /\ ec = 0 /\ do_blink_error = 0 /\ error_ref_row = 0

\* C14: after a rejection that found the counter at 0, followed by steps
\* with no new press in between, the alert is still pending after each of
\* the first 4 steps and idle again after exactly 5; the counter is within
\* 0..4 in every state.
C14_AlertAutoClear ==
    /\ ec \in 0 .. 4
    /\ (last.ev = "step" /\ last.on = 1 /\ last.y = 0) =>
          /\ last.x \in 1 .. 4 => (do_error = 1 /\ ec = last.x /\ error_ref_row > 0)
          /\ last.x = 5 => alert_idle

\* C14 witness: the fifth step after a rejection from idle has been taken
\* and the alert is idle.
C14_Witness ==
    /\ last.ev = "step" /\ last.on = 1 /\ last.y = 0 /\ last.x = 5
    /\ alert_idle

\* C15: a rejection that arrives while the alert is pending, with the
\* counter at 1..4, restarts the counter at 0 and records the offending
\* row, so that the alert is still pending after each of the next 4 steps.
C15_AlertRearm ==
    /\ [][(rejected' /\ do_error = 1 /\ ec \in 1 .. 4) =>
             (ec' = 0 /\ do_error' = 1 /\ error_ref_row' > 0)]_vars
    /\ []((last.ev = "step" /\ last.on = 1 /\ last.x \in 1 .. 4)
             => do_error = 1)

\* what a rejection does to the alert: pending, row recorded, counter kept
RejectionKeepsCounter ==
    [][rejected' => (ec' = ec /\ do_error' = 1 /\ error_ref_row' > 0)]_vars

\* the last event was the release of a preset button on the config page,
\* which loads the preset of that slot
loaded ==
    /\ last.ev = "press" /\ last.on = 0 /\ last.y = 0
    /\ last.x - 3 \in Slots
    /\ page = CONFIG

phase_reset == current_tick = MAX_STEPS - 1

\* C17: after a preset load, whatever the state before it, the tick phase
\* is reset and the alert is idle.
C17_LoadResetsPhaseAndAlert ==
    loaded => (phase_reset /\ alert_idle)

\* what a preset load does to the phase and the alert: nothing
LoadKeepsPhaseAndAlert ==
    [][loaded' =>
          (current_tick' = current_tick
           /\ <<ec, do_error, do_blink_error, error_ref_row>>' =
                  <<ec, do_error, do_blink_error, error_ref_row>>)]_vars

\* the last event was a press or a hold with a row or column outside the
\* grid
malformed ==
    /\ last.ev \in {"press", "held"}
    /\ last.y \notin Rows \/ last.x \notin 0 .. 15

\* C18: a press or hold whose row or column is out of range is a no-op: it
\* changes nothing in the rows, the config, the selected row, the selected
\* preset slot or the alert state.
C18_MalformedInputNoOp ==
    [][malformed' =>
          UNCHANGED <<p, selected_row, selected_preset, flash,
                      ec, do_error, do_blink_error, error_ref_row>>]_vars

\* the same for every malformed event but the press of a row button on
\* the main page
MalformedNoOpButRowSelect ==
    [][(malformed' /\ ~(last'.ev = "press" /\ last'.x = 0 /\ last'.on = 1
                        /\ page = MAIN)) =>
          UNCHANGED <<p, selected_row, selected_preset, flash,
                      ec, do_error, do_blink_error, error_ref_row>>]_vars

\* C19: in SINGLE depth the logic edges form only depth-1 pairs: no row
\* that is the target of an edge has an edge of its own.
C19_SingleNoChain ==
    p.config.logic_depth = SINGLE =>
        \A A \in Rows :
            has_edge(p.row, A) => ~has_edge(p.row, target(p.row, A))

\* C20: a step sets the output pin and the blink flag of every row it
\* fires and arms that row's one-shot pin-low timer; in every state a high
\* pin has its pin-low timer pending; and the delivery of a row's pin-low
\* timer lowers the pin and leaves no timer pending for it.
C20_GateRaisedAndLowered ==
    /\ [](\A r \in Rows : gate[r] = 1 => (GATETIMER + r) \in timers)
    /\ [][last'.ev = "fire" =>
            \A r \in fired_log'[Len(fired_log')] :
                /\ gate'[r] = 1
                /\ p'.row[r].blink = 1
                /\ (GATETIMER + r) \in timers']_vars
    /\ [][(last'.ev = "timer_event" /\ last'.x >= GATETIMER) =>
            /\ gate'[last'.x - GATETIMER] = 0
            /\ last'.x \notin timers']_vars

\* C20 witness: after two rows fired, the pin-low timer of one has been
\* delivered and its pin is low while the pin of the other is still high.
C20_Witness ==
    /\ last.ev = "timer_event" /\ last.x >= GATETIMER
    /\ gate[last.x - GATETIMER] = 0
    /\ last.x - GATETIMER \in fired_log[Len(fired_log)]
    /\ \E r \in Rows : gate[r] = 1

\* the smaller and the larger of two numbers
min2(a, b) == IF a < b THEN a ELSE b
max2(a, b) == IF a > b THEN a ELSE b

\* C21: for every knob value k in 0..65535 the tick period set is
\* 60000 / clamp(k >> 6, 30, 1000) by integer division; the period set at
\* any time lies in 60..2000 ms.
C21_TempoDerivation ==
    /\ clock_interval \in 60 .. 2000
    /\ (last.ev = "knob" /\ last.y > 0) =>
          clock_interval = 60000 \div max2(30, min2(1000, last.x \div 64))

\* C21 witness: a knob value below the lower limit of the clamp has been
\* read and the period is the longest one.
C21_Witness ==
    /\ last.ev = "knob" /\ last.y > 0
    /\ last.x \div 64 < 30
    /\ clock_interval = 2000

\* C22: after every accepted edit in NESTED depth (an edge set, an edge
\* toggled off, a division change of any row) the walks of
\* process_nested_change have recomputed the rows in dependency order, so
\* that the pattern of every row is the pattern of its divisor combined with
\* the current pattern of its target.
C22_NestedRecomputeOrder ==
    (/\ p.config.logic_depth = NESTED
     /\ logic_pressed \/ division_pressed
     /\ last.err = 0
     /\ ~hung)
        => \A r \in Rows :
              \A i \in Steps :
                  p.row[r].triggers[i] =
                      IF has_edge(p.row, r)
                      THEN combine(p.row[r].logic.type,
                                   baseTriggers(p.row[r].division)[i],
                                   p.row[target(p.row, r)].triggers[i])
                      ELSE baseTriggers(p.row[r].division)[i]

\* the presses of a run that ends with a division press: a row is selected
WalkSelect ==
    /\ page = MAIN
    /\ used.extras = 0
    /\ \E y \in Rows : grid_key_pressed(0, y, 1)
    /\ UNCHANGED <<fired_log, used>>

\* a logic press on a row that follows the selected row
WalkLogic ==
    /\ page = MAIN
    /\ used.extras = 0
    /\ \E x \in GraphOps, d \in 1 .. MaxDist :
            grid_key_pressed(x, (selected_row + d) % GATE_OUTS, 1)
    /\ UNCHANGED <<fired_log, used>>

\* a logic press on a row from which the selected row is reached along the
\* edges: the edge asked for would close a ring
RingLogic ==
    /\ page = MAIN
    /\ used.extras = 0
    /\ \E x \in GraphOps, y \in Rows :
          /\ \E k \in 1 .. GATE_OUTS - 1 : hops(p.row, y, k) = selected_row
          /\ grid_key_pressed(x, y, 1)
    /\ UNCHANGED <<fired_log, used>>

\* a division press on the selected row, the last press of the run
WalkDivision ==
    /\ page = MAIN
    /\ used.extras < MaxExtras
    /\ \E x \in DivCols : grid_key_pressed(x, selected_row, 1)
    /\ spend("extras")
    /\ UNCHANGED fired_log

\* chains over all eight rows in NESTED depth, presses that would close a
\* ring, and a division press
NextWalk ==
    \/ WalkSelect
    \/ WalkLogic
    \/ RingLogic
    \/ WalkDivision

SpecWalk == InitNested /\ [][NextWalk]_vars

\* the walks of process_nested_change(r, just_checking) over the rows end,
\* no row is pushed twice, the stack holds at most GATE_OUTS rows, and the
\* downward walk meets no row twice
walks_end(cfg, rows, r, just_checking) ==
    LET up == upWalk(rows, r, just_checking, rows[r].logic.compared_row, <<r>>)
    IN  /\ ~up.hang
        /\ Len(up.stack) <= GATE_OUTS
        /\ \A i, j \in 1 .. Len(up.stack) : i # j => up.stack[i] # up.stack[j]
        /\ ~process_nested_change(cfg, rows, r, just_checking).hang

\* the logic press (x, y) passes the three tests of the NESTED branch and
\* sets the edge of the selected row before the second check
reaches_tentative(cfg, rows, sel, x, y) ==
    /\ is_logically_referenced(rows, sel, y, 0) = 0
    /\ is_circularly_referenced(rows, sel, y) = 0
    /\ process_nested_change(cfg, rows, y, 1).ret = 0
    /\ ~is_self_reference(sel, y)
    /\ ~capacity_exceeded(rows, sel, x, y)

\* C23: no handler has failed to return; in every reachable NESTED state the
\* walks of process_nested_change end from every row, in the checking and
\* in the recomputing mode, and so do the walks the handler runs from the
\* selected row over the rows with the tentative edge of any logic press:
\* no row is visited twice by a walk and the stack never holds more than 8
\* rows.
C23_WalksTerminate ==
    /\ ~hung
    /\ p.config.logic_depth = NESTED =>
        /\ \A r \in Rows : \A jc \in {0, 1} : walks_end(p.config, p.row, r, jc)
        /\ \A x \in LogicCols : \A y \in Rows :
              reaches_tentative(p.config, p.row, selected_row, x, y) =>
                  LET t == tentative_edge(p.config, p.row, selected_row, x, y)
                  IN  /\ walks_end(p.config, t, selected_row, 1)
                      /\ process_nested_change(p.config, t, selected_row, 1).ret = 0
                            => walks_end(p.config, t, selected_row, 0)

\* C23 witness: with a chain a -> b -> c the press c -> a has set the
\* tentative edge, the second check has walked the ring once and found
\* it, the edge has been taken back and the handler has returned.
C23_Witness ==
    /\ p.config.logic_depth = NESTED
    /\ ~hung
    /\ logic_pressed /\ last.err = 1
    /\ \E a, b \in Rows :
        /\ a # b /\ a # selected_row /\ b # selected_row
        /\ last.y = a
        /\ target(p.row, a) = b /\ target(p.row, b) = selected_row
    /\ ~has_edge(p.row, selected_row)
    /\ reaches_tentative(p.config, p.row, selected_row, last.x, last.y)
    /\ LET t == tentative_edge(p.config, p.row, selected_row, last.x, last.y)
       IN  /\ on_cycle(t, selected_row)
           /\ process_nested_change(p.config, t, selected_row, 1).ret = 1

====
